---- MODULE Spec2Model ----
(***************************************************************************)
(* Model of functions/scripts/probe.py: the RecommendationProbe cycle      *)
(* (run_probe_cycle and the four request wrappers it calls) and the        *)
(* continuous runner (run_continuous_probe), as driven by main().          *)
(*                                                                         *)
(* Time is counted in ticks of 0.1 s (the inter-user delay of line 244).   *)
(* Users are numbered: user i stands for 'user_00i'; item i stands for     *)
(* 'ride_00i'.  A ratio computed with Python's / is kept as the pair       *)
(* <<numerator, denominator>> and compared by cross-multiplication.        *)
(***************************************************************************)
EXTENDS Integers, Sequences, FiniteSets, TLC

----------------------------------------------------------------------------
\* Bounds of the model.

\* size of the item pool (len(self.test_items)) explored
MaxItems == 2
\* the runner is followed for at most this many cycles
MaxCycles == 3
\* largest duration_hours argument of the runner
MaxDurationHours == 1

----------------------------------------------------------------------------
\* Program constants.

\* ticks per second: one tick is the 0.1 s of time.sleep(0.1)
TicksPerSecond == 10
\* time.sleep(0.1), in ticks
DelayTicks == 1
\* random.sample(self.test_users, min(5, ...))
SampleSize == 5
\* random.random() > 0.7, in tenths
RateThreshold == 7
\* random.randint(1, 5)
MinRating == 1
MaxRating == 5
\* time.sleep(60) after a failed cycle
CooldownSeconds == 60
\* sleep_seconds = interval_minutes * 60
SecondsPerMinute == 60
\* timedelta(hours=duration_hours)
SecondsPerHour == 3600
\* timeout=60 of the /models/compare call
CompareTimeoutSeconds == 60

\* Python's None, where a number is expected
None == -1
\* a key that a dict does not have
NoRating == 0
NoItemId == 0

Min(a, b) == IF a < b THEN a ELSE b
Range(s) == {s[i] : i \in 1..Len(s)}

----------------------------------------------------------------------------
\* What the service under test may do with one HTTP call.

\* a 2xx answer with a JSON body, or one of the failures requests raises for
HttpFailures == {"transport_error", "timeout", "http_500", "bad_body"}
HttpOutcomes == {"ok"} \cup HttpFailures
\* the time, in ticks, one HTTP call takes
CallTicks == {1}

\* the time a /models/compare call takes: the 60 s of its timeout when it
\* times out (the one call that can carry a cycle over a minute)
CompareTicks(outcome) ==
  IF outcome = "timeout" THEN {CompareTimeoutSeconds * TicksPerSecond} ELSE CallTicks

\* random.random() in [0, 1), in tenths
Draws == 0..9
\* random.randint(1, 5): the rating is recorded in the report and nothing
\* branches on it, so its smallest and largest values are explored
Ratings == {MinRating, MaxRating}

\* self.test_items
test_items == 1..MaxItems

\* An element of a 'recommendations' list: a JSON object with an itemId
\* (1..MaxItems) or without one (NoItemId).
Items == {NoItemId} \cup test_items
\* the 'recommendations' lists the service returns: of up to two elements
RecLengths == 0..2
RecLists == UNION {[1..n -> Items] : n \in RecLengths}
\* The JSON body of a /recommend answer: with or without the key.
RecBodies == {[has_recommendations |-> FALSE, recommendations |-> << >>]}
             \cup {[has_recommendations |-> TRUE, recommendations |-> l] : l \in RecLists}
NoBody == [has_recommendations |-> FALSE, recommendations |-> << >>]

\* data.get('recommendations', [])
DataGetRecommendations(data) ==
  IF data.has_recommendations THEN data.recommendations ELSE << >>

\* recommendations[0].get('itemId', random.choice(self.test_items))
FirstItemLast(recommendations, fallback) ==
  LET it == recommendations[Len(recommendations)]
  IN IF it # NoItemId THEN it ELSE fallback
FirstItemId(recommendations, fallback) ==
  LET it == recommendations[1]
  IN IF it # NoItemId THEN it ELSE fallback

----------------------------------------------------------------------------
\* The request wrappers: the result each returns for an outcome of its call.

\* health_check
health_check(outcome, elapsed) ==
  IF outcome = "ok"
    THEN [status |-> "healthy", response_time |-> elapsed]
    ELSE [status |-> "unhealthy", response_time |-> None]

\* get_recommendations
get_recommendations(outcome, body, elapsed) ==
  IF outcome = "ok"
    THEN [status |-> "success",
          response_time |-> elapsed,
          recommendations_count |-> Len(DataGetRecommendations(body)),
          data |-> body]
    ELSE [status |-> "error",
          response_time |-> None,
          recommendations_count |-> 0,
          data |-> NoBody]

\* The result as a member of recommendation_results.  Nothing reads the 'data'
\* of a result after the loop body that received it (lines 222-225), so the
\* list keeps the result without the service's body.
Listed(result) ==
  [status |-> result.status,
   response_time |-> result.response_time,
   recommendations_count |-> result.recommendations_count]

\* rec_result outside the loop body
NoResult == [status |-> "none", response_time |-> None,
             recommendations_count |-> 0, data |-> NoBody]

\* track_interaction (the echoed interaction and the elapsed time are left out)
track_interaction(outcome) ==
  IF outcome = "ok" THEN [status |-> "success"] ELSE [status |-> "error"]

\* compare_models (the comparison payload is left out)
compare_models(outcome) ==
  IF outcome = "ok" THEN [status |-> "success"] ELSE [status |-> "error"]

----------------------------------------------------------------------------
\* run_probe_cycle: the pieces of the summary.

EmptyDict == [empty |-> TRUE]
EmptyResults == [health_check |-> EmptyDict,
                 recommendations |-> << >>,
                 interactions |-> << >>,
                 model_comparison |-> EmptyDict,
                 summary |-> EmptyDict]

\* if results['health_check']['status'] != 'healthy'
ShortCircuitOnError(hc) == hc.status = "error"
ShortCircuit(hc) == hc.status # "healthy"

FailedSummary == [status |-> "failed", reason |-> "API unhealthy"]

\* if rec_result['status'] == 'success' and rec_result['recommendations_count'] > 0
Tracks(rec_result) ==
  rec_result.status = "success" /\ rec_result.recommendations_count > 0

\* if random.random() > 0.7
RatesBelow(draw) == draw < 3
Rates(draw) == draw > RateThreshold

IsSuccessful(r) == r.result.status = "success"
IsPersonalized(r) ==
  r.result.status = "success" /\ r.result.recommendations_count > 0
\* if r['result']['response_time']: None and 0 are both false
HasResponseTime(r) ==
  r.result.response_time # None /\ r.result.response_time # 0

\* sum(1 for r in recommendation_results if r['result']['status'] == 'success')
Successful(rr) == Cardinality({i \in 1..Len(rr) : IsSuccessful(rr[i])})

RECURSIVE SumResponseTimes(_)
SumResponseTimes(rr) ==
  IF rr = << >> THEN 0
  ELSE (IF HasResponseTime(Head(rr)) THEN Head(rr).result.response_time ELSE 0)
       + SumResponseTimes(Tail(rr))

\* the value 0 of a ratio
Zero == <<0, 1>>
RatEq(a, b) == a[1] * b[2] = b[1] * a[2]

\* sum(1 for r in recommendation_results if ... and recommendations_count > 0)
PersonalizedSuccessOnly(rr) == Successful(rr)
Personalized(rr) == Cardinality({i \in 1..Len(rr) : IsPersonalized(rr[i])})

\* personalized_responses / len(recommendation_results) if recommendation_results else 0
PersonalizationRate(rr) ==
  IF rr # << >> THEN <<Personalized(rr), Len(rr)>> ELSE Zero

\* sum(... if r['result']['response_time']) / len(recommendation_results)
\*   if recommendation_results else 0
AvgResponseTime(rr) ==
  IF rr # << >> THEN <<SumResponseTimes(rr), Len(rr)>> ELSE Zero

\* len(recommendation_results) + 1  # +1 for model comparison
TotalRequestsWithViews(rr) == Len(rr) + Personalized(rr) + 1
TotalRequests(rr) == Len(rr) + 1

Summary(rr, cycle_time) ==
  [status |-> "completed",
   cycle_time |-> cycle_time,
   total_requests |-> TotalRequests(rr),
   successful_recommendations |-> Successful(rr),
   personalized_responses |-> Personalized(rr),
   personalization_rate |-> PersonalizationRate(rr),
   avg_response_time |-> AvgResponseTime(rr)]

\* random.sample(pool, k): every sequence of k distinct members, in any order
SamplesWithRepeats(pool, k) == [1..k -> Range(pool)]
Samples(pool, k) ==
  {s \in [1..k -> Range(pool)] : \A i, j \in 1..k : s[i] = s[j] => i = j}

----------------------------------------------------------------------------
\* The state.

VARIABLES
  mode,                   \* "single" (--single) or "continuous"
  pc,                     \* where the control is
  clock,                  \* time.time() / datetime.now(), in ticks
  test_users,             \* self.test_users
  interval_minutes,       \* argument of run_continuous_probe
  duration_hours,         \* argument of run_continuous_probe
  end_time,               \* run_continuous_probe: end_time
  cycle_count,            \* run_continuous_probe: cycle_count
  total_cycles,           \* the count logged at line 312, None before
  files,                  \* the file names written, in order (the timestamps)
  results,                \* run_probe_cycle: results
  recommendation_results, \* run_probe_cycle: recommendation_results
  rec_result,             \* run_probe_cycle: rec_result, with its 'data'
  sample,                 \* run_probe_cycle: test_users (the sample)
  idx,                    \* position of the for loop in the sample
  cycle_start,            \* run_probe_cycle: cycle_start
  fault,                  \* the exception last raised, "none" if none
  calls,                  \* history: the HTTP calls of the current cycle
  served,                 \* history: what /recommend answered, per sampled user
  last_draw,              \* history: random.random() of the current user, None if not drawn
  health_outcome,         \* history: what the /health call of the current cycle met
  raised,                 \* history: number of cycles that raised an exception
  invocations,            \* history: number of calls of run_probe_cycle
  interrupted,            \* history: a KeyboardInterrupt was delivered
  interrupted_at,         \* history: the place it was delivered at, "none" before
  slept                   \* history: the current cycle was followed by the interval sleep

runnerVars == <<interval_minutes, duration_hours, end_time, cycle_count,
                total_cycles, files, invocations, interrupted, interrupted_at, slept>>
cycleVars == <<results, recommendation_results, rec_result, sample, idx,
               cycle_start, calls, served, last_draw, health_outcome>>
vars == <<mode, pc, clock, test_users, fault, raised, runnerVars, cycleVars>>

\* The behaviours of the service a cycle is explored with.  A single cycle
\* for a pool smaller than the sample size is explored with all of them.  A
\* pool that fills the sample, and the cycles of the continuous runner, are
\* explored with calls that succeed, fail at once or time out, one answer of
\* /recommend, /track calls that succeed and a draw that does not rate: the
\* sample and the order of the calls are what the first adds, and the runner
\* sees of a cycle only whether it returned or raised, and when.
Exhaustive == mode = "single" /\ Len(test_users) < SampleSize
Outcomes == IF Exhaustive THEN HttpOutcomes ELSE {"ok", "http_500", "timeout"}
Bodies ==
  IF Exhaustive THEN RecBodies
  ELSE {[has_recommendations |-> TRUE, recommendations |-> <<1>>]}
TrackOutcomes == IF Exhaustive THEN HttpOutcomes ELSE {"ok"}
CycleDraws == IF Exhaustive THEN Draws ELSE {0}

Call(endpoint, user, item, type) ==
  [endpoint |-> endpoint, user |-> user, item |-> item, type |-> type]

\* where run_probe_cycle returns to: main (line 333) or the runner (line 288)
ReturnPc == IF mode = "single" THEN "print" ELSE "write"

\* the places of the try block of lines 284-303
CyclePlaces == {"health", "sample", "recommend", "view", "rate", "delay",
                "compare", "summary"}
TryPlaces == {"try", "call", "write", "sleep"} \cup CyclePlaces

\* Where the control goes when exception exc is raised at a place: inside the
\* try block of the runner KeyboardInterrupt breaks out of the loop (lines
\* 305-307) and any other exception goes to the cooldown (lines 308-310);
\* anywhere else, and in main with --single, nothing catches it.
HandlerBreaks(exc, place) ==
  IF mode = "continuous" /\ place \in TryPlaces THEN "report" ELSE "escaped"
HandlerCatchesAll(exc, place) ==
  IF mode = "continuous" /\ place \in TryPlaces THEN "cooldown" ELSE "escaped"
Handler(exc, place) ==
  IF mode = "continuous" /\ place \in TryPlaces
    THEN (IF exc = "KeyboardInterrupt" THEN "report" ELSE "cooldown")
    ELSE "escaped"

----------------------------------------------------------------------------
\* run_probe_cycle

\* lines 179-189: the entry of run_probe_cycle
EnterCycle ==
  /\ cycle_start' = clock
  /\ results' = EmptyResults
  /\ recommendation_results' = << >>
  /\ rec_result' = NoResult
  /\ sample' = << >>
  /\ idx' = 0
  /\ calls' = << >>
  /\ served' = << >>
  /\ last_draw' = None
  /\ health_outcome' = "none"
  /\ fault' = "none"
  /\ pc' = "health"

\* lines 191-200: the health check and the short circuit
HealthCheck ==
  /\ pc = "health"
  /\ \E outcome \in Outcomes, d \in CallTicks :
       LET hc == health_check(outcome, d) IN
       /\ clock' = clock + d
       /\ calls' = Append(calls, Call("/health", 0, 0, "-"))
       /\ health_outcome' = outcome
       /\ IF ShortCircuit(hc)
            THEN /\ results' = [results EXCEPT !.health_check = hc,
                                              !.summary = FailedSummary]
                 /\ pc' = ReturnPc
            ELSE /\ results' = [results EXCEPT !.health_check = hc]
                 /\ pc' = "sample"
  /\ UNCHANGED <<mode, test_users, fault, raised, runnerVars,
                 recommendation_results, rec_result, sample, idx, cycle_start,
                 served, last_draw>>

\* lines 203-206: the sample, and the entry of the for loop
SampleUsers ==
  /\ pc = "sample"
  /\ \E s \in Samples(test_users, Min(SampleSize, Len(test_users))) :
       /\ sample' = s
       /\ idx' = 1
       /\ pc' = IF s = << >> THEN "compare" ELSE "recommend"
  /\ UNCHANGED <<mode, clock, test_users, fault, raised, runnerVars, results,
                 recommendation_results, rec_result, cycle_start, calls, served,
                 last_draw, health_outcome>>

\* lines 208-221: one user's recommendations
GetRecommendations ==
  /\ pc = "recommend"
  /\ \E outcome \in Outcomes, body \in Bodies, d \in CallTicks :
       LET user_id == sample[idx]
           result == get_recommendations(outcome, body, d)
           recs == IF outcome = "ok" THEN DataGetRecommendations(body) ELSE << >>
       IN
       /\ clock' = clock + d
       /\ calls' = Append(calls, Call("/recommend", user_id, 0, "-"))
       /\ served' = Append(served, [user_id |-> user_id,
                                    ok |-> outcome = "ok",
                                    count |-> Len(recs),
                                    first |-> IF recs = << >> THEN NoItemId ELSE recs[1],
                                    elapsed |-> IF outcome = "ok" THEN d ELSE None])
       /\ rec_result' = result
       /\ recommendation_results' =
            Append(recommendation_results,
                   [user_id |-> user_id, result |-> Listed(result)])
       /\ pc' = IF Tracks(result) THEN "view" ELSE "delay"
  /\ UNCHANGED <<mode, test_users, fault, raised, runnerVars, results, sample,
                 idx, cycle_start, last_draw, health_outcome>>

\* lines 222-231: the 'view' interaction for the first recommendation
TrackView ==
  /\ pc = "view"
  /\ LET user_id == sample[idx]
         recommendations == DataGetRecommendations(rec_result.data)
     IN
     IF recommendations # << >>
       THEN \E fallback \in test_items, outcome \in TrackOutcomes, d \in CallTicks :
              LET item_id == FirstItemId(recommendations, fallback) IN
              /\ clock' = clock + d
              /\ calls' = Append(calls, Call("/track", user_id, item_id, "view"))
              /\ results' = [results EXCEPT !.interactions =
                               Append(@, [user_id |-> user_id,
                                          item_id |-> item_id,
                                          rating |-> NoRating,
                                          result |-> track_interaction(outcome)])]
              /\ pc' = "rate"
       ELSE /\ pc' = "delay"
            /\ UNCHANGED <<clock, calls, results>>
  /\ UNCHANGED <<mode, test_users, fault, raised, runnerVars, recommendation_results,
                 rec_result, sample, idx, cycle_start, served, last_draw,
                 health_outcome>>

\* lines 233-242: the draw, and the 'rate' interaction for the same item
MaybeRate ==
  /\ pc = "rate"
  /\ \E draw \in CycleDraws :
       /\ last_draw' = draw
       /\ IF Rates(draw)
            THEN \E rating \in Ratings, outcome \in TrackOutcomes, d \in CallTicks :
                   LET user_id == sample[idx]
                       item_id == results.interactions[Len(results.interactions)].item_id
                   IN
                   /\ clock' = clock + d
                   /\ calls' = Append(calls, Call("/track", user_id, item_id, "rate"))
                   /\ results' = [results EXCEPT !.interactions =
                                    Append(@, [user_id |-> user_id,
                                               item_id |-> item_id,
                                               rating |-> rating,
                                               result |-> track_interaction(outcome)])]
            ELSE UNCHANGED <<clock, calls, results>>
  /\ pc' = "delay"
  /\ UNCHANGED <<mode, test_users, fault, raised, runnerVars, recommendation_results,
                 rec_result, sample, idx, cycle_start, served,
                 health_outcome>>

\* for user_id in test_users: the position of the next iteration
SameUser(i) == i
NextUser(i) == i + 1

\* line 244, and the step of the for loop
Delay ==
  /\ pc = "delay"
  /\ clock' = clock + DelayTicks
  /\ idx' = NextUser(idx)
  /\ pc' = IF NextUser(idx) <= Len(sample) THEN "recommend" ELSE "compare"
  /\ rec_result' = NoResult
  /\ last_draw' = None
  /\ UNCHANGED <<mode, test_users, fault, raised, runnerVars, results,
                 recommendation_results, sample, cycle_start, calls, served,
                 health_outcome>>

\* lines 246-250: the model comparison for random.choice(test_users), which
\* raises IndexError on an empty sample
CompareModels ==
  /\ pc = "compare"
  /\ IF sample = << >>
       THEN /\ fault' = "IndexError"
            /\ raised' = raised + 1
            /\ pc' = Handler("IndexError", pc)
            /\ results' = [results EXCEPT !.recommendations = recommendation_results]
            /\ UNCHANGED <<clock, calls>>
       ELSE \E comparison_user \in Range(sample), outcome \in Outcomes :
            \E d \in CompareTicks(outcome) :
              /\ clock' = clock + d
              /\ calls' = Append(calls, Call("/models/compare", comparison_user, 0, "-"))
              /\ results' = [results EXCEPT
                               !.recommendations = recommendation_results,
                               !.model_comparison = compare_models(outcome)]
              /\ pc' = "summary"
              /\ UNCHANGED <<fault, raised>>
  /\ UNCHANGED <<mode, test_users, runnerVars, recommendation_results, rec_result,
                 sample, idx, cycle_start, served, last_draw,
                 health_outcome>>

\* lines 252-274: the summary, and the return
Summarize ==
  /\ pc = "summary"
  /\ results' = [results EXCEPT !.summary =
                   Summary(recommendation_results, clock - cycle_start)]
  /\ pc' = ReturnPc
  /\ UNCHANGED <<mode, clock, test_users, fault, raised, runnerVars,
                 recommendation_results, rec_result, sample, idx, cycle_start,
                 calls, served, last_draw, health_outcome>>

----------------------------------------------------------------------------
\* The caller is done with a cycle: the locals of run_probe_cycle are gone,
\* and nothing reads the report after print (line 334), after json.dump (line
\* 295) or after an exception, so the model keeps none of it.
ForgetCycle ==
  /\ results' = EmptyResults
  /\ recommendation_results' = << >>
  /\ rec_result' = NoResult
  /\ sample' = << >>
  /\ idx' = 0
  /\ calls' = << >>
  /\ served' = << >>
  /\ last_draw' = None

----------------------------------------------------------------------------
\* main() with --single

\* line 333: results = probe.run_probe_cycle()
MainSingle ==
  /\ mode = "single"
  /\ pc = "main"
  /\ EnterCycle
  /\ invocations' = invocations + 1
  /\ UNCHANGED <<mode, clock, test_users, raised, interval_minutes, duration_hours,
                 end_time, cycle_count, total_cycles, files, interrupted, interrupted_at, slept>>

\* line 334: print(json.dumps(results, indent=2)), and the end of main
PrintResults ==
  /\ pc = "print"
  /\ pc' = "exit"
  /\ ForgetCycle
  /\ health_outcome' = "none"
  /\ UNCHANGED <<mode, clock, test_users, fault, raised, runnerVars, cycle_start>>

----------------------------------------------------------------------------
\* run_continuous_probe

\* the interval_minutes arguments explored
Intervals == {0, 30, 59}

\* datetime.now().strftime("%Y%m%d_%H%M%S"): the time to the second
Strftime(t) == t \div TicksPerSecond

\* cycle_count += 1
CycleCountUnchanged(c) == c
NextCycleCount(c) == c + 1

\* datetime.now() < end_time (lines 283 and 300)
NotAfterDeadline(now, deadline) == now <= deadline
AlwaysBeforeDeadline(now, deadline) == TRUE
BeforeDeadline(now, deadline) == now < deadline

\* lines 299-303: after the write, the interval sleep if the deadline has not
\* passed, the while test at once if it has
AfterWriteToTest(now, deadline) == "loop_test"
AfterWrite(now, deadline) ==
  IF BeforeDeadline(now, deadline) THEN "sleep" ELSE "loop_test"

\* lines 278-281
StartContinuous ==
  /\ mode = "continuous"
  /\ pc = "main"
  /\ end_time' = clock + duration_hours * SecondsPerHour * TicksPerSecond
  /\ cycle_count' = 0
  /\ pc' = "loop_test"
  /\ UNCHANGED <<mode, clock, test_users, fault, raised, interval_minutes,
                 duration_hours, total_cycles, files, invocations, interrupted, interrupted_at,
                 slept, cycleVars>>

\* line 283: while datetime.now() < end_time.  A run is followed for at most
\* MaxCycles cycles.
LoopTest ==
  /\ pc = "loop_test"
  /\ BeforeDeadline(clock, end_time) => cycle_count < MaxCycles
  /\ pc' = IF BeforeDeadline(clock, end_time) THEN "try" ELSE "report"
  /\ UNCHANGED <<mode, clock, test_users, fault, raised, runnerVars, cycleVars>>

\* lines 285-286: the count, and its log line
CountCycle ==
  /\ pc = "try"
  /\ cycle_count' = NextCycleCount(cycle_count)
  /\ slept' = FALSE
  /\ fault' = "none"
  /\ pc' = "call"
  /\ UNCHANGED <<mode, clock, test_users, raised, interval_minutes,
                 duration_hours, end_time, total_cycles, files, invocations,
                 interrupted, interrupted_at, cycleVars>>

\* line 288: results = self.run_probe_cycle()
StartCycle ==
  /\ pc = "call"
  /\ invocations' = invocations + 1
  /\ EnterCycle
  /\ UNCHANGED <<mode, clock, test_users, raised, interval_minutes,
                 duration_hours, end_time, cycle_count, total_cycles, files,
                 interrupted, interrupted_at, slept>>

\* lines 290-300: the report file, named by the time to the second; open()
\* or json.dump() may raise OSError.  Then the deadline test of line 300.
WriteFile ==
  /\ pc = "write"
  /\ ForgetCycle
  /\ \E ok \in BOOLEAN :
       IF ok
         THEN /\ files' = Append(files, Strftime(clock))
              /\ pc' = AfterWrite(clock, end_time)
              /\ UNCHANGED <<fault, raised>>
         ELSE /\ fault' = "OSError"
              /\ raised' = raised + 1
              /\ pc' = Handler("OSError", pc)
              /\ UNCHANGED files
  /\ UNCHANGED <<mode, clock, test_users, interval_minutes, duration_hours,
                 end_time, cycle_count, total_cycles, invocations, interrupted,
                 interrupted_at, slept, cycle_start, health_outcome>>

\* lines 301-303: time.sleep(interval_minutes * 60)
IntervalSleep ==
  /\ pc = "sleep"
  /\ clock' = clock + interval_minutes * SecondsPerMinute * TicksPerSecond
  /\ slept' = TRUE
  /\ pc' = "loop_test"
  /\ UNCHANGED <<mode, test_users, fault, raised, interval_minutes, duration_hours,
                 end_time, cycle_count, total_cycles, files, invocations,
                 interrupted, interrupted_at, cycleVars>>

\* lines 308-310: the handler of an exception other than KeyboardInterrupt
Cooldown ==
  /\ pc = "cooldown"
  /\ clock' = clock + CooldownSeconds * TicksPerSecond
  /\ pc' = "loop_test"
  /\ UNCHANGED <<mode, test_users, fault, raised, runnerVars, cycleVars>>

\* line 312: the final count
Report ==
  /\ pc = "report"
  /\ total_cycles' = cycle_count
  /\ pc' = "done"
  /\ UNCHANGED <<mode, clock, test_users, fault, raised, interval_minutes,
                 duration_hours, end_time, cycle_count, files, invocations,
                 interrupted, interrupted_at, slept, cycleVars>>

\* A KeyboardInterrupt is delivered while the runner is in its loop.  Inside
\* the try block the handler of lines 305-307 breaks out of the loop; the
\* request wrappers catch Exception only, so they let it through.  At the
\* loop test of line 283 and in the handler of lines 308-310 nothing catches
\* it, and it leaves run_continuous_probe.  The unwinding drops the locals of
\* run_probe_cycle, and nothing reads the report of the cycle afterwards.
Interrupt ==
  /\ mode = "continuous"
  /\ pc \in TryPlaces \cup {"loop_test", "cooldown"}
  /\ ~interrupted
  /\ interrupted' = TRUE
  /\ interrupted_at' = pc
  /\ fault' = "KeyboardInterrupt"
  /\ pc' = Handler("KeyboardInterrupt", pc)
  /\ ForgetCycle
  /\ health_outcome' = "none"
  /\ UNCHANGED <<mode, clock, test_users, raised, interval_minutes, duration_hours,
                 end_time, cycle_count, total_cycles, files, invocations, slept,
                 cycle_start>>

----------------------------------------------------------------------------
\* The specifications.

\* self.test_users, as explored under --single and under the runner
Pools == {<< >>, <<1>>, <<1, 2>>}
RunnerPools == {<< >>, <<1>>, <<1, 2>>}

InitCommon ==
  /\ pc = "main"
  /\ clock = 0
  /\ end_time = 0
  /\ cycle_count = 0
  /\ total_cycles = None
  /\ files = << >>
  /\ results = EmptyResults
  /\ recommendation_results = << >>
  /\ rec_result = NoResult
  /\ sample = << >>
  /\ idx = 0
  /\ cycle_start = 0
  /\ fault = "none"
  /\ calls = << >>
  /\ served = << >>
  /\ last_draw = None
  /\ health_outcome = "none"
  /\ raised = 0
  /\ invocations = 0
  /\ interrupted = FALSE
  /\ interrupted_at = "none"
  /\ slept = FALSE

InitSingle ==
  /\ mode = "single"
  /\ test_users \in Pools
  /\ interval_minutes = 0
  /\ duration_hours = 0
  /\ InitCommon

NextSingle ==
  \/ MainSingle
  \/ HealthCheck
  \/ SampleUsers
  \/ GetRecommendations
  \/ TrackView
  \/ MaybeRate
  \/ Delay
  \/ CompareModels
  \/ Summarize
  \/ PrintResults

SpecSingle == InitSingle /\ [][NextSingle]_vars

\* main() with --single, for pools smaller and larger than the sample size
SamplePools == {<< >>, <<1>>, <<1, 2, 3, 4, 5, 6>>}

InitSample ==
  /\ mode = "single"
  /\ test_users \in SamplePools
  /\ interval_minutes = 0
  /\ duration_hours = 0
  /\ InitCommon

SpecSample == InitSample /\ [][NextSingle]_vars

\* main() without --single: run_continuous_probe(args.interval, args.duration)
Init ==
  /\ mode = "continuous"
  /\ test_users \in RunnerPools
  /\ interval_minutes \in Intervals
  /\ duration_hours \in 0..MaxDurationHours
  /\ InitCommon

Next ==
  \/ StartContinuous
  \/ LoopTest
  \/ CountCycle
  \/ StartCycle
  \/ HealthCheck
  \/ SampleUsers
  \/ GetRecommendations
  \/ TrackView
  \/ MaybeRate
  \/ Delay
  \/ CompareModels
  \/ Summarize
  \/ WriteFile
  \/ IntervalSleep
  \/ Cooldown
  \/ Report
  \/ Interrupt

Spec == Init /\ [][Next]_vars

\* The steps of the program itself: everything but the delivery of a
\* KeyboardInterrupt.  Every HTTP call, file write and sleep returns and the
\* interpreter goes on to the next statement, so the program keeps taking
\* them while one is possible.
Advance ==
  \/ StartContinuous
  \/ LoopTest
  \/ CountCycle
  \/ StartCycle
  \/ HealthCheck
  \/ SampleUsers
  \/ GetRecommendations
  \/ TrackView
  \/ MaybeRate
  \/ Delay
  \/ CompareModels
  \/ Summarize
  \/ WriteFile
  \/ IntervalSleep
  \/ Cooldown
  \/ Report

FairSpec == Spec /\ WF_vars(Advance)

----------------------------------------------------------------------------
\* What the properties read.

HealthStatus ==
  IF results.health_check = EmptyDict THEN "none" ELSE results.health_check.status
SummaryStatus ==
  IF results.summary = EmptyDict THEN "none" ELSE results.summary.status
Completed == SummaryStatus = "completed"

\* the /track calls of the current cycle for a user, of one interaction type
TrackCalls(user, type) ==
  {k \in 1..Len(calls) : /\ calls[k].endpoint = "/track"
                         /\ calls[k].user = user
                         /\ calls[k].type = type}
CallsTo(endpoint) == {k \in 1..Len(calls) : calls[k].endpoint = endpoint}

\* the sampled users the service answered with at least one recommendation
ServedPersonalized == {i \in 1..Len(served) : served[i].ok /\ served[i].count > 0}
\* the sampled users whose /recommend call returned, so that it was timed
ServedTimed == {i \in 1..Len(served) : served[i].elapsed # None}

RECURSIVE SumElapsed(_)
SumElapsed(S) ==
  IF S = {} THEN 0
  ELSE LET i == CHOOSE x \in S : TRUE
       IN served[i].elapsed + SumElapsed(S \ {i})

\* the loop body of user number i of the sample is over
UserDone(i) == i < idx \/ (i = idx /\ pc = "delay")

----------------------------------------------------------------------------
\* C1: when the health check does not return 'healthy' (transport failure,
\* timeout, HTTP 500 or unparseable body), run_probe_cycle returns at once
\* with summary {status: 'failed', reason: 'API unhealthy'}, with empty
\* recommendations, interactions and model_comparison, and the only HTTP call
\* of the cycle is the /health call.
C1_UnhealthyShortCircuits ==
  (health_outcome \in HttpFailures) =>
     /\ HealthStatus = "unhealthy"
     /\ pc \in {"print", "exit"}
     /\ results.summary = [status |-> "failed", reason |-> "API unhealthy"]
     /\ results.recommendations = << >>
     /\ results.interactions = << >>
     /\ results.model_comparison = EmptyDict
     /\ Len(calls) = 1
     /\ calls[1].endpoint = "/health"

C1_Witness ==
  /\ health_outcome = "http_500"
  /\ pc = "print"
  /\ results.summary = FailedSummary
  /\ CallsTo("/recommend") = {}

\* C2: in a cycle that passed the health check, personalization_rate is
\* exactly the number of sampled users answered successfully with at least one
\* recommendation, divided by the number of sampled users, and lies in [0,1].
C2_PersonalizationRateExact ==
  Completed =>
    LET rate == results.summary.personalization_rate IN
    /\ Len(sample) > 0
    /\ Len(served) = Len(sample)
    /\ RatEq(rate, <<Cardinality(ServedPersonalized), Len(sample)>>)
    /\ rate[2] > 0
    /\ 0 <= rate[1]
    /\ rate[1] <= rate[2]

C2_Witness ==
  /\ Completed
  /\ Len(sample) = 2
  /\ Cardinality(ServedPersonalized) = 1
  /\ \E i \in 1..Len(served) : served[i].ok /\ served[i].count = 0
  /\ RatEq(results.summary.personalization_rate, <<1, 2>>)

\* C3: a cycle that passes the health check with an empty user pool returns a
\* report whose personalization_rate and avg_response_time are 0, and raises
\* nothing.
C3_EmptyPoolReturnsZeros ==
  (test_users = << >> /\ HealthStatus = "healthy" /\ pc \notin CyclePlaces) =>
     /\ fault = "none"
     /\ pc \in {"print", "exit"}
     /\ Completed
     /\ RatEq(results.summary.personalization_rate, Zero)
     /\ RatEq(results.summary.avg_response_time, Zero)

\* C4: avg_response_time is the sum of the non-null response times divided by
\* the number of results that have one, and 0 when none has one.
C4_MeanOverTimedResults ==
  Completed =>
    LET avg == results.summary.avg_response_time IN
    IF ServedTimed = {}
      THEN RatEq(avg, Zero)
      ELSE RatEq(avg, <<SumElapsed(ServedTimed), Cardinality(ServedTimed)>>)

\* C5: for each sampled user whose loop body is over: if /recommend succeeded
\* with at least one recommendation, exactly one 'view' /track call was issued
\* for the user, for the itemId of the first recommendation (for an item of
\* the item pool when the first recommendation has no itemId); otherwise no
\* /track call of any type was issued for the user.  personalized_responses
\* counts exactly the users of the first kind.
C5_OneViewPerPersonalizedUser ==
  /\ \A i \in 1..Len(served) :
       UserDone(i) =>
         LET u == served[i].user_id
             views == TrackCalls(u, "view")
         IN
         IF served[i].ok /\ served[i].count > 0
           THEN /\ Cardinality(views) = 1
                /\ \A k \in views :
                     /\ served[i].first # NoItemId => calls[k].item = served[i].first
                     /\ served[i].first = NoItemId => calls[k].item \in test_items
           ELSE /\ views = {}
                /\ TrackCalls(u, "rate") = {}
  /\ Completed =>
       results.summary.personalized_responses = Cardinality(ServedPersonalized)

C5_Witness ==
  /\ Completed
  /\ \E i, j \in 1..Len(served) :
       /\ served[i].ok /\ served[i].count = 2 /\ served[i].first = 2
       /\ \E k \in TrackCalls(served[i].user_id, "view") : calls[k].item = 2
       /\ served[j].ok /\ served[j].count = 0
       /\ TrackCalls(served[j].user_id, "view") = {}

\* C6 as amended: for a user whose 'view' call was issued, a draw above 0.7
\* issues one 'rate' /track call for the same item, recorded with a rating in
\* [1,5]; a draw of at most 0.7 issues no 'rate' call.
C6_RateWhenDrawAbove07 ==
  (pc = "delay" /\ last_draw # None) =>
    LET u == sample[idx]
        rates == TrackCalls(u, "rate")
        n == Len(results.interactions)
    IN
    /\ Cardinality(TrackCalls(u, "view")) = 1
    /\ IF last_draw > 7
         THEN /\ Cardinality(rates) = 1
              /\ \A k \in rates : \A v \in TrackCalls(u, "view") :
                   k = v + 1 /\ calls[k].item = calls[v].item
              /\ results.interactions[n].user_id = u
              /\ results.interactions[n].rating \in 1..5
              /\ results.interactions[n - 1].rating = NoRating
         ELSE /\ rates = {}
              /\ results.interactions[n].user_id = u
              /\ results.interactions[n].rating = NoRating

C6_Witness ==
  /\ pc = "delay"
  /\ last_draw = 8
  /\ Cardinality(TrackCalls(sample[idx], "rate")) = 1
  /\ results.interactions[Len(results.interactions)].rating = 5

\* C6 as claimed: a draw below 0.3 issues the 'rate' call with a rating in
\* [1,5]; a draw above 0.3 issues the 'view' call only.
C6_RateWhenDrawBelow03 ==
  (pc = "delay" /\ last_draw # None) =>
    LET rates == TrackCalls(sample[idx], "rate")
        n == Len(results.interactions)
    IN
    /\ last_draw < 3 => /\ Cardinality(rates) = 1
                         /\ results.interactions[n].rating \in 1..5
    /\ last_draw > 3 => rates = {}

----------------------------------------------------------------------------
\* Properties of run_continuous_probe.

\* an exception other than KeyboardInterrupt
CycleFaults == {"IndexError", "OSError"}

\* C7: a KeyboardInterrupt delivered at any place of the loop (in a cycle, in
\* the file write, in the interval sleep, in the 60 s cooldown, at the deadline
\* test) ends the runner through its handler: nothing escapes
\* run_continuous_probe and the control is at the final 'Total cycles' line.
C7_InterruptStopsCleanly ==
  interrupted => /\ pc \in {"report", "done"}
                 /\ pc = "done" => total_cycles = cycle_count

\* C8: cycle_count is incremented once per call of run_probe_cycle, whether
\* the cycle returns or raises: without a KeyboardInterrupt the count is the
\* number of calls (one more between the increment of line 285 and the call of
\* line 288), and the count logged when the loop ends is the number of calls;
\* the runner leaves its loop without logging the count only by a
\* KeyboardInterrupt.
C8_CountsEveryAttempt ==
  /\ ~interrupted =>
       cycle_count = invocations + (IF pc = "call" THEN 1 ELSE 0)
  /\ interrupted => cycle_count - invocations \in {0, 1}
  /\ raised <= invocations
  /\ pc = "done" => total_cycles = cycle_count
  /\ (pc = "done" /\ ~interrupted) => total_cycles = invocations
  /\ total_cycles # None => pc = "done"
  /\ pc = "escaped" => interrupted

C8_Witness ==
  /\ pc = "done"
  /\ ~interrupted
  /\ total_cycles = 3
  /\ raised = 1
  /\ Len(files) = 2

\* C9: no two cycles of a run write the same file name.
C9_FileNamesUnique ==
  \A i, j \in 1..Len(files) : files[i] = files[j] => i = j

\* C10: an exception other than KeyboardInterrupt raised in a cycle (in
\* run_probe_cycle or in the file write) does not leave the runner: the
\* control goes to the cooldown, the interval sleep is not taken for that
\* cycle, the cooldown lasts 60 s, and then the deadline is tested again and
\* another cycle starts if it has not passed.
C10_Caught ==
  /\ pc = "escaped" => fault = "KeyboardInterrupt"
  /\ fault \in CycleFaults => /\ pc \in {"cooldown", "loop_test", "try", "report",
                                          "done", "escaped"}
                               /\ ~slept
  /\ pc = "cooldown" => fault \in CycleFaults
C10_Raise ==
  (fault = "none" /\ fault' \in CycleFaults) => (pc' = "cooldown" /\ raised' = raised + 1)
C10_Cooldown ==
  (pc = "cooldown" /\ ~interrupted') =>
     /\ pc' = "loop_test"
     /\ clock' = clock + 60 * TicksPerSecond
     /\ fault' = fault
C10_Retest ==
  (pc = "loop_test" /\ fault \in CycleFaults /\ ~interrupted') =>
     pc' = IF clock < end_time THEN "try" ELSE "report"
C10_FailedCycleNonFatal ==
  /\ []C10_Caught
  /\ [][C10_Raise /\ C10_Cooldown /\ C10_Retest]_vars

\* a second cycle has started after a cycle that raised
C10_Witness ==
  /\ pc = "health"
  /\ cycle_count = 2
  /\ raised = 1
  /\ ~interrupted
  /\ clock = CooldownSeconds * TicksPerSecond + 1

\* the cycles whose report was written or that raised: all the cycles that
\* are over, unless one was abandoned
CyclesAccounted == Len(files) + raised

\* C11 as amended: a KeyboardInterrupt that arrives during an operation of a
\* started cycle cancels the cycle: the control goes to the final log line, no
\* further HTTP call is issued, no report is written for that cycle, and no
\* further cycle starts.
C11_InterruptCancelsCycle ==
  interrupted_at \in CyclePlaces =>
    /\ pc \in {"report", "done"}
    /\ calls = << >>
    /\ CyclesAccounted = invocations - 1
    /\ cycle_count = invocations

C11_Witness ==
  /\ interrupted_at = "recommend"
  /\ pc = "done"
  /\ invocations = 2
  /\ Len(files) = 1
  /\ raised = 0

\* C11 as claimed: a cycle that has started is not cancelled by an interrupt:
\* when the runner has stopped, the report of the interrupted cycle has been
\* written (or the cycle raised), as for every other cycle.
C11_InterruptedCycleCompletes ==
  (interrupted_at \in CyclePlaces /\ pc = "done") => CyclesAccounted = invocations

\* the deadline, to the second
DeadlineSecond == end_time \div TicksPerSecond

\* no cycle is started, or in progress without having started, at or past
\* the deadline; the interval sleep follows only a write before the deadline
C15_StartsBeforeDeadline ==
  /\ pc \in {"try", "call"} => clock < end_time
  /\ (mode = "continuous" /\ pc \in CyclePlaces \cup {"write"}) => cycle_start < end_time
  /\ invocations > 0 => cycle_start < end_time
  /\ (pc = "sleep" \/ slept) =>
       (files # << >> /\ files[Len(files)] < DeadlineSecond)
C15_Start ==
  invocations' # invocations => (clock < end_time /\ cycle_start' = clock)
C15_LateWrite ==
  (pc = "write" /\ clock >= end_time /\ files' # files) =>
     (pc' = "loop_test" /\ clock' = clock /\ ~slept')
C15_Exit ==
  (pc = "loop_test" /\ clock >= end_time /\ ~interrupted') => pc' = "report"

\* C15: run_continuous_probe starts no cycle when the clock is at or past
\* end_time (the start time plus the duration), and after a cycle whose report
\* is written at or past end_time it goes to the while test without the
\* interval sleep, and leaves the loop.
C15_DeadlineRespected ==
  /\ []C15_StartsBeforeDeadline
  /\ [][C15_Start /\ C15_LateWrite /\ C15_Exit]_vars

\* the second cycle started before the deadline, wrote its report after it,
\* and the runner ended without the interval sleep
C15_Witness ==
  /\ pc = "done"
  /\ ~interrupted
  /\ Len(files) = 2
  /\ files[2] >= DeadlineSecond
  /\ cycle_start < end_time
  /\ clock >= end_time
  /\ ~slept

\* the run is followed no further: MaxCycles cycles were started and the
\* deadline has not passed
Capped == pc = "loop_test" /\ cycle_count >= MaxCycles /\ clock < end_time

\* every pass of the loop takes time: back at the while test, the clock is
\* past the time the last cycle started at
C16_Progress ==
  (pc = "loop_test" /\ invocations > 0) => clock > cycle_start
\* the deadline does not move once the runner has fixed it
C16_DeadlineFixed == pc # "main" => end_time' = end_time

Unhealthy == health_outcome \in HttpFailures

\* an unhealthy cycle returns its failed report to the runner and raises
\* nothing; it is followed by the cooldown only if its file write raised
C18_Returned ==
  /\ (Unhealthy /\ pc = "write") =>
       (results.summary = FailedSummary /\ fault = "none")
  /\ Unhealthy => pc \in {"write", "sleep", "loop_test", "try", "call",
                           "cooldown", "report", "done"}
  /\ (Unhealthy /\ pc = "cooldown") => fault = "OSError"
  /\ (Unhealthy /\ slept) => files # << >>
\* its report is written, and the interval test and sleep follow
C18_Written ==
  (Unhealthy /\ pc = "write" /\ ~interrupted' /\ fault' = "none") =>
     /\ files' = Append(files, Strftime(clock))
     /\ pc' = IF clock < end_time THEN "sleep" ELSE "loop_test"
C18_Sleeps ==
  (pc = "sleep" /\ ~interrupted') =>
     /\ clock' = clock + interval_minutes * 60 * TicksPerSecond
     /\ pc' = "loop_test"
     /\ slept'
C18_GoesOn ==
  (Unhealthy /\ pc = "loop_test" /\ clock < end_time /\ ~interrupted') =>
     pc' = "try"
\* a file is written by the write of a cycle that returned, and by nothing
\* else; when a cycle starts, every cycle before it wrote one file or raised
\* (in run_probe_cycle or in the write)
C18_OneFilePerCycle ==
  /\ files' # files =>
       (pc = "write" /\ Len(files') = Len(files) + 1 /\ raised' = raised)
  /\ raised' # raised => files' = files
  /\ invocations' # invocations => CyclesAccounted = invocations

\* C18: under the runner a cycle that short-circuits on an unhealthy API is
\* not a failed cycle: its report (summary.status 'failed') is written to a
\* file, the interval sleep follows and not the 60 s cooldown, and the next
\* cycle starts if the deadline has not passed; each cycle that returns has
\* one file written, and a cycle that raised has none.
C18_UnhealthyCycleIsWritten ==
  /\ []C18_Returned
  /\ [][C18_Written /\ C18_Sleeps /\ C18_GoesOn /\ C18_OneFilePerCycle]_vars

\* after an unhealthy first cycle: one file, the interval sleep of 30
\* minutes taken, nothing raised, and the second cycle about to start
C18_Witness ==
  /\ pc = "try"
  /\ health_outcome = "http_500"
  /\ slept
  /\ Len(files) = 1
  /\ raised = 0
  /\ cycle_count = 1
  /\ clock = 1 + 30 * 60 * TicksPerSecond

----------------------------------------------------------------------------
\* Properties of the calls of one cycle.

\* the /recommend calls of the current cycle for a user
RecommendCalls(user) ==
  {k \in CallsTo("/recommend") : calls[k].user = user}

\* the cycle is over (it returned or it raised) and had passed the health check
PassedAndOver == HealthStatus = "healthy" /\ pc \notin CyclePlaces

\* whatever /recommend, /track and /models/compare calls failed, every sampled
\* user received one /recommend call, /models/compare was called once, and
\* the cycle returned a report with summary.status 'completed'
Absorbed ==
  /\ fault = "none"
  /\ pc \in {"print", "exit"}
  /\ Completed
  /\ \A i \in 1..Len(sample) : Cardinality(RecommendCalls(sample[i])) = 1
  /\ Cardinality(CallsTo("/models/compare")) = 1
  /\ results.model_comparison # EmptyDict
  /\ Len(results.recommendations) = Len(sample)

\* C12: in a cycle that passes the health check the failures of the
\* /recommend, /track and /models/compare calls are absorbed: every sampled
\* user receives exactly one /recommend call, /models/compare is called
\* exactly once, nothing is raised, and the report is returned with
\* summary.status 'completed'.
C12_FailuresAbsorbed == PassedAndOver => Absorbed

\* the same, for a user pool that is not empty
C12_AbsorbedUnlessPoolEmpty == (PassedAndOver /\ test_users # << >>) => Absorbed

\* C13: the HTTP calls of a cycle form one line without retries: /health
\* first and once; the /recommend calls follow the order of the sample, one
\* per user; a user's 'view' /track call comes right after the user's
\* /recommend call and the 'rate' call right after the 'view' call, so before
\* the next user's /recommend; /models/compare is called at most once, last,
\* after every user's calls; no call is issued twice, failed or not.
C13_LinearTrace ==
  LET n == Len(calls) IN
  /\ n >= 1 => calls[1].endpoint = "/health"
  /\ CallsTo("/health") \subseteq {1}
  /\ LET recs == CallsTo("/recommend") IN
     \A k \in recs :
       LET j == Cardinality({m \in recs : m <= k}) IN
       /\ j <= Len(sample)
       /\ calls[k].user = sample[j]
       /\ \A m \in recs : calls[m].user = calls[k].user => m = k
  /\ \A k \in CallsTo("/track") :
       /\ calls[k].type = "view" =>
            /\ calls[k - 1].endpoint = "/recommend"
            /\ calls[k - 1].user = calls[k].user
       /\ calls[k].type = "rate" =>
            /\ calls[k - 1].endpoint = "/track"
            /\ calls[k - 1].type = "view"
            /\ calls[k - 1].user = calls[k].user
            /\ calls[k - 1].item = calls[k].item
       /\ calls[k].type \in {"view", "rate"}
  /\ \A k \in CallsTo("/models/compare") :
       /\ k = n
       /\ Cardinality(CallsTo("/recommend")) = Len(sample)
       /\ pc \in {"summary", "print", "exit"}
  /\ Completed => Cardinality(CallsTo("/models/compare")) = 1

\* the users of the recommendations sequence of the report
ReportedUsers ==
  {results.recommendations[i].user_id : i \in 1..Len(results.recommendations)}

\* C14: in a cycle that passed the health check the sample, and the
\* recommendations sequence of the report, have exactly min(5, pool size)
\* entries, for pairwise distinct users of the pool; successful_recommendations
\* is at most that number; and /models/compare is called for a sampled user.
C14_SampleOfFive ==
  /\ (HealthStatus = "healthy" /\ pc \notin {"health", "sample"}) =>
       /\ Len(sample) = Min(5, Len(test_users))
       /\ Range(sample) \subseteq Range(test_users)
       /\ Cardinality(Range(sample)) = Len(sample)
  /\ (HealthStatus = "healthy" /\ pc \in {"summary", "print", "exit", "escaped"}) =>
       /\ Len(results.recommendations) = Min(5, Len(test_users))
       /\ ReportedUsers \subseteq Range(test_users)
       /\ Cardinality(ReportedUsers) = Len(results.recommendations)
       /\ \A i \in 1..Len(sample) : results.recommendations[i].user_id = sample[i]
  /\ Completed =>
       /\ results.summary.successful_recommendations <= Len(results.recommendations)
       /\ results.summary.successful_recommendations <= Min(5, Len(test_users))
  /\ \A k \in CallsTo("/models/compare") : calls[k].user \in ReportedUsers

\* five of six users sampled, one of them not answered, and the comparison
\* made for the user sampled third
C14_Witness ==
  /\ Completed
  /\ Len(test_users) = 6
  /\ Len(results.recommendations) = 5
  /\ 6 \in ReportedUsers
  /\ results.summary.successful_recommendations = 4
  /\ \E k \in CallsTo("/models/compare") : calls[k].user = sample[3]

\* the sampled users whose /recommend call succeeded
ServedOk == {i \in 1..Len(served) : served[i].ok}

\* the entries of the interactions list that record a rating
RatedEntries ==
  {j \in 1..Len(results.interactions) : results.interactions[j].rating # NoRating}

\* C17: the counts of the summary are determined by the sample and by what
\* /recommend answered to each sampled user, so cycles that differ only in the
\* draws, the ratings and the outcomes of the /track calls have the same
\* successful_recommendations, personalized_responses, personalization_rate
\* and total_requests.  A 'rate' call shows only as an entry of the
\* interactions list, which records the rating; the /track call carries the
\* user, the item and the interaction type, and no rating.
C17_SummaryIgnoresTracking ==
  /\ Completed =>
       /\ results.summary.successful_recommendations = Cardinality(ServedOk)
       /\ results.summary.personalized_responses = Cardinality(ServedPersonalized)
       /\ RatEq(results.summary.personalization_rate,
                <<Cardinality(ServedPersonalized), Len(sample)>>)
       /\ results.summary.total_requests = Len(sample) + 1
  /\ Len(results.interactions) = Cardinality(CallsTo("/track"))
  /\ Cardinality(RatedEntries) =
       Cardinality({k \in CallsTo("/track") : calls[k].type = "rate"})
  /\ \A j \in RatedEntries : results.interactions[j].rating \in 1..5
  /\ \A k \in CallsTo("/track") :
       DOMAIN calls[k] = {"endpoint", "user", "item", "type"}

\* two users answered with a recommendation; a failed 'view' call and a
\* failed 'rate' call with rating 1 for one of them, a rating 5 for the other:
\* the summary counts two personalized responses and three requests
C17_Witness ==
  /\ Completed
  /\ Len(sample) = 2
  /\ Len(results.interactions) = 4
  /\ results.interactions[1].result.status = "error"
  /\ results.interactions[2].rating = 1
  /\ results.interactions[2].result.status = "error"
  /\ results.interactions[4].rating = 5
  /\ results.summary.personalized_responses = 2
  /\ results.summary.total_requests = 3

\* health, recommend, view and rate for the first user, a failed recommend
\* for the second, and a failed comparison: six calls, none repeated
C13_Witness ==
  /\ Completed
  /\ Len(calls) = 6
  /\ calls[4].type = "rate"
  /\ calls[5].endpoint = "/recommend"
  /\ ~served[2].ok
  /\ results.model_comparison.status = "error"

====
